---- MODULE Spec2Model ----
(***************************************************************************)
(* A model of app.py: a PDF question-answering command line tool.          *)
(*                                                                         *)
(* A text is a sequence of one-character strings, so that slicing,         *)
(* trimming and joining are computed character by character as Python      *)
(* computes them.  An optional value (None or a value) is a record with a  *)
(* field "some".                                                            *)
(*                                                                         *)
(* Two specifications:                                                     *)
(*   SpecChunk  list(chunk_text(T, size)) for every bounded T and size     *)
(*   Spec       one run of main()                                          *)
(***************************************************************************)
EXTENDS Integers, Sequences, FiniteSets, TLC

VARIABLES
    pc,         \* position of the run
    environ,    \* value of the environment variable GEMINI_API_KEY
    doc,        \* the file at args.pdf: [exists, pages]
    save_answer,\* args.save_answer (None when the flag is not given)
    idx,        \* extract_pdf_text: number of pages visited
    all_text,   \* extract_pdf_text: the list all_text
    pdf_text,   \* main: pdf_text, the text handed to ask_gemini
    gen,        \* the generator object of chunk_text: [text, size, i]
    chunks,     \* the chunks the generator has yielded, in order
    responses,  \* ask_gemini: the list responses
    calls,      \* prompts passed to model.generate_content, in order
    results,    \* outcome of each generate_content call that has ended
    answer,     \* main: answer (None until ask_gemini returns)
    exc,        \* the exception raised (None when none was)
    stdout,     \* lines printed to the output stream
    stderr,     \* lines printed to the error stream
    traceback,  \* whether the interpreter printed a stack trace
    status,     \* exit status of the process (None while running)
    file        \* content written to args.save_answer (None when not written)

vars == <<pc, environ, doc, save_answer, idx, all_text, pdf_text, gen, chunks,
          responses, calls, results, answer, exc, stdout, stderr, traceback,
          status, file>>

\* ------------------------------------------------------------------ bounds

\* longest text and largest chunk size handed to chunk_text in SpecChunk
MaxLen == 5
MaxSize == 3
\* most pages of a document in Spec
MaxPages == 2
\* The chunk size ask_gemini uses.  The program's MAX_CONTEXT_CHARS is
\* 120000 (app.py line 7); the model scales it down so that a document of
\* a few pages spans several chunks.  No claim depends on its value.
ContextChars == 16

\* ------------------------------------------------------------ Python values

None == [some |-> FALSE]

Some(v) == [some |-> TRUE, v |-> v]

\* truthiness of an optional text: None and the empty text are falsy
Truthy(x) == x.some /\ x.v # <<>>

\* x or ""
OrEmpty(x) == IF Truthy(x) THEN x.v ELSE <<>>

\* the characters str.strip() removes (those of them the model uses)
Whitespace == {" ", "\n"}

RECURSIVE LStrip(_)
LStrip(s) == IF s # <<>> /\ Head(s) \in Whitespace THEN LStrip(Tail(s)) ELSE s

RECURSIVE RStrip(_)
RStrip(s) ==
    IF s # <<>> /\ s[Len(s)] \in Whitespace
    THEN RStrip(SubSeq(s, 1, Len(s) - 1))
    ELSE s

\* str.strip()
Strip(s) == RStrip(LStrip(s))

\* sep.join(parts)
RECURSIVE Join(_, _)
Join(sep, parts) ==
    IF parts = <<>> THEN <<>>
    ELSE IF Len(parts) = 1 THEN parts[1]
    ELSE parts[1] \o sep \o Join(sep, Tail(parts))

BlankLine == <<"\n", "\n">>

Digit(d) == CASE d = 0 -> "0" [] d = 1 -> "1" [] d = 2 -> "2" [] d = 3 -> "3"
              [] d = 4 -> "4" [] d = 5 -> "5" [] d = 6 -> "6" [] d = 7 -> "7"
              [] d = 8 -> "8" [] d = 9 -> "9"

\* str(n) for n >= 0, as f"{n}" formats it
RECURSIVE Str(_)
Str(n) == IF n < 10 THEN <<Digit(n)>> ELSE Str(n \div 10) \o <<Digit(n % 10)>>

Min(a, b) == IF a <= b THEN a ELSE b

\* text[i : j] for 0 <= i <= j
Slice(text, i, j) == SubSeq(text, i + 1, Min(j, Len(text)))

\* -------------------------------------------------------------- chunk_text

\* the generator object chunk_text(text, size) returns: nothing has run yet
NewGen(text, size) == [text |-> text, size |-> size, i |-> 0]

\* a range that also visits len(text) itself
GenHasNextInclusive(g) == g.i <= Len(g.text)

\* range(0, len(text), size) has a next value
GenHasNext(g) == g.i < Len(g.text)

\* a slice one character short: text[i : i + size - 1]
GenYieldShort(g) == Slice(g.text, g.i, g.i + g.size - 1)

\* the chunk yielded: text[i : i + size]
GenYield(g) == Slice(g.text, g.i, g.i + g.size)

\* a range that steps by 1 instead of size
GenAdvanceByOne(g) == [g EXCEPT !.i = g.i + 1]

\* the generator after the yield: range steps by size
GenAdvance(g) == [g EXCEPT !.i = g.i + g.size]

Alphabet == {"a", "b"}

Texts == UNION {[1..n -> Alphabet] : n \in 0..MaxLen}

Sizes == 1..MaxSize

\* the variables of main(), idle while the chunker alone runs
MainIdle ==
    /\ environ = None
    /\ doc = [exists |-> FALSE, valid |-> FALSE, pages |-> <<>>]
    /\ save_answer = None
    /\ idx = 0
    /\ all_text = <<>>
    /\ pdf_text = None
    /\ responses = <<>>
    /\ calls = <<>>
    /\ results = <<>>
    /\ answer = None
    /\ exc = None
    /\ stdout = <<>>
    /\ stderr = <<>>
    /\ traceback = FALSE
    /\ status = None
    /\ file = None

mainVars == <<environ, doc, save_answer, idx, all_text, pdf_text, responses,
              calls, results, answer, exc, stdout, stderr, traceback, status,
              file>>

\* list(chunk_text(T, size)), as test_app.py calls it
InitChunk ==
    /\ pc = "list_iter"
    /\ \E T \in Texts, size \in Sizes : gen = NewGen(T, size)
    /\ chunks = <<>>
    /\ MainIdle

\* list() takes the next chunk from the generator
ListNext ==
    /\ pc = "list_iter"
    /\ GenHasNext(gen)
    /\ chunks' = Append(chunks, GenYield(gen))
    /\ gen' = GenAdvance(gen)
    /\ UNCHANGED <<pc, mainVars>>

\* the generator is exhausted: list() returns
ListDone ==
    /\ pc = "list_iter"
    /\ ~GenHasNext(gen)
    /\ pc' = "list_done"
    /\ UNCHANGED <<gen, chunks, mainVars>>

NextChunk == ListNext \/ ListDone

SpecChunk == InitChunk /\ [][NextChunk]_vars

\* ------------------------------------------------- claims about chunk_text

Concat(parts) == Join(<<>>, parts)

\* C1: for every text T and positive size, the chunks yielded so far
\* concatenate, in the order yielded, to the part of T already consumed, and
\* once the generator is exhausted to exactly T.
C1_ChunksReassemble ==
    /\ Concat(chunks) = Slice(gen.text, 0, gen.i)
    /\ pc = "list_done" => Concat(chunks) = gen.text

\* C1 witness: a text cut into three chunks, the last one shorter
C1_Witness ==
    /\ pc = "list_done"
    /\ Len(chunks) = 3
    /\ Len(chunks[3]) < gen.size

\* C2 as stated: every text no longer than size yields exactly one chunk,
\* the text itself.
C2_Original ==
    (pc = "list_done" /\ Len(gen.text) <= gen.size) => chunks = <<gen.text>>

\* C2 amended: every NON-EMPTY text no longer than size yields exactly one
\* chunk, the text itself.
C2_SmallTextOneChunk ==
    (pc = "list_done" /\ gen.text # <<>> /\ Len(gen.text) <= gen.size)
        => chunks = <<gen.text>>

\* C2 witness: a text of two characters and a size of three, fully iterated
C2_Witness ==
    /\ pc = "list_done"
    /\ Len(gen.text) = 2
    /\ gen.size = 3
    /\ Len(chunks) = 1

\* C3: no chunk is empty; every chunk but the last has length exactly size,
\* the last has a length in 1..size, and the empty text yields no chunk.
C3_ChunkLengths ==
    /\ \A k \in 1..Len(chunks) : Len(chunks[k]) \in 1..gen.size
    /\ pc = "list_done" =>
          /\ \A k \in 1..(Len(chunks) - 1) : Len(chunks[k]) = gen.size
          /\ gen.text = <<>> => chunks = <<>>

\* C3 witness: a text whose length is a multiple of size, fully iterated,
\* where an inclusive range would yield a trailing empty chunk
C3_Witness ==
    /\ pc = "list_done"
    /\ Len(gen.text) = 2 * gen.size
    /\ Len(chunks) = 2

\* ------------------------------------------------------------------ main()

\* args.question
Question == <<"q", "?">>

\* values of GEMINI_API_KEY: unset, set to the empty string, set to a key
EnvValues == {None, Some(""), Some("k")}

\* not api_key: unset or empty
NoKey(k) == ~k.some \/ k.v = ""

\* what page.extract_text() returns for one page
PageTexts == {None, Some(<<" ">>), Some(<<"a">>), Some(<<" ", "b", "\n">>)}

\* the file at args.pdf: absent, not readable as a PDF, or a PDF with pages
Docs ==
    {[exists |-> FALSE, valid |-> FALSE, pages |-> <<>>],
     [exists |-> TRUE, valid |-> FALSE, pages |-> <<>>]}
    \cup {[exists |-> TRUE, valid |-> TRUE, pages |-> ps] :
            ps \in UNION {[1..n -> PageTexts] : n \in 0..MaxPages}}

\* args.save_answer: flag absent, an empty path, a path
SaveArgs == {None, Some(""), Some("out.txt")}

\* what result.text holds when generate_content returns
ResultTexts == {None, Some(<<" ">>), Some(<<"x">>), Some(<<" ", "y", "\n">>)}

\* the outcome of one generate_content call
Raised == [raised |-> TRUE]

Returned(t) == [raised |-> FALSE, text |-> t]

Exception(type, msg) == Some([type |-> type, msg |-> msg])

Init ==
    /\ pc = "load_env"
    /\ environ \in EnvValues
    /\ doc \in Docs
    /\ save_answer \in SaveArgs
    /\ idx = 0
    /\ all_text = <<>>
    /\ pdf_text = None
    /\ gen = NewGen(<<>>, ContextChars)
    /\ chunks = <<>>
    /\ responses = <<>>
    /\ calls = <<>>
    /\ results = <<>>
    /\ answer = None
    /\ exc = None
    /\ stdout = <<>>
    /\ stderr = <<>>
    /\ traceback = FALSE
    /\ status = None
    /\ file = None

\* load_env_file(args.env_file): without python-dotenv nothing happens; with
\* it, load_dotenv may define a variable that is not set yet (it does not
\* override one that is)
LoadEnv ==
    /\ pc = "load_env"
    /\ \/ environ' = environ
       \/ ~environ.some /\ environ' \in {Some(""), Some("k")}
    /\ pc' = "extract"
    /\ UNCHANGED <<doc, save_answer, idx, all_text, pdf_text, gen, chunks,
                   responses, calls, results, answer, exc, stdout, stderr,
                   traceback, status, file>>

\* extract_pdf_text up to the loop: the existence check and PdfReader(...)
ExtractOpen ==
    /\ pc = "extract"
    /\ IF ~doc.exists
       THEN /\ exc' = Exception("FileNotFoundError", "PDF file not found")
            /\ pc' = "except"
       ELSE IF ~doc.valid
       THEN /\ exc' = Exception("PdfReadError", "not a PDF")
            /\ pc' = "except"
       ELSE /\ exc' = exc
            /\ pc' = "extract_loop"
    /\ UNCHANGED <<environ, doc, save_answer, idx, all_text, pdf_text, gen,
                   chunks, responses, calls, results, answer, stdout, stderr,
                   traceback, status, file>>

\* f"--- Page {idx} ---\n"
PageMarker(n) ==
    <<"-", "-", "-", " ", "P", "a", "g", "e", " ">> \o Str(n)
        \o <<" ", "-", "-", "-", "\n">>

\* an iteration that numbers a kept page by its place among the kept pages
ExtractPageRenumbered ==
    /\ pc = "extract_loop"
    /\ idx < Len(doc.pages)
    /\ idx' = idx + 1
    /\ LET text == Strip(OrEmpty(doc.pages[idx + 1]))
       IN  all_text' = IF text # <<>>
                       THEN Append(all_text,
                                   PageMarker(Len(all_text) + 1) \o text)
                       ELSE all_text
    /\ UNCHANGED <<pc, environ, doc, save_answer, pdf_text, gen, chunks,
                   responses, calls, results, answer, exc, stdout, stderr,
                   traceback, status, file>>

\* one iteration of the loop over enumerate(reader.pages, start=1)
ExtractPage ==
    /\ pc = "extract_loop"
    /\ idx < Len(doc.pages)
    /\ idx' = idx + 1
    /\ LET text == Strip(OrEmpty(doc.pages[idx + 1]))
       IN  all_text' = IF text # <<>>
                       THEN Append(all_text, PageMarker(idx + 1) \o text)
                       ELSE all_text
    /\ UNCHANGED <<pc, environ, doc, save_answer, pdf_text, gen, chunks,
                   responses, calls, results, answer, exc, stdout, stderr,
                   traceback, status, file>>

\* after the loop: join, trim, fail on an empty result, else return to main
ExtractJoin ==
    /\ pc = "extract_loop"
    /\ idx = Len(doc.pages)
    /\ LET combined == Strip(Join(BlankLine, all_text))
       IN  IF combined = <<>>
           THEN /\ exc' = Exception("ValueError",
                                    "Could not extract any text from the PDF.")
                /\ pc' = "except"
                /\ pdf_text' = pdf_text
           ELSE /\ pdf_text' = Some(combined)
                /\ pc' = "ask"
                /\ exc' = exc
    /\ UNCHANGED <<environ, doc, save_answer, idx, all_text, gen, chunks,
                   responses, calls, results, answer, stdout, stderr,
                   traceback, status, file>>

\* build_prompt(context, question); each fixed part of the template is one
\* element of the sequence
build_prompt(context, question) ==
    <<"You are a careful assistant. Use ONLY the provided PDF context to answer. If the answer is not present, explicitly say: 'I could not find that in the PDF.'\n\nPDF CONTEXT:\n">>
        \o context \o <<"\n\nQUESTION: ">> \o question \o <<"\nANSWER:">>

\* f"Partial answer {i+1}:\n{r}" for the i-th (from 1) response
PartialSection(i, r) == <<"Partial answer ">> \o Str(i) \o <<":\n">> \o r

\* the merge prompt of ask_gemini
summary_prompt(rs) ==
    <<"You are given multiple partial answers extracted from different PDF chunks. Merge them into one concise final answer. If conflicting, prefer overlap across chunks.\n\n">>
        \o Join(BlankLine, [i \in 1..Len(rs) |-> PartialSection(i, rs[i])])

\* a credential check that only rejects an unset variable
AskCredentialNoneOnly ==
    /\ pc = "ask"
    /\ IF ~environ.some
       THEN /\ exc' = Exception("EnvironmentError", "GEMINI_API_KEY is not set. Configure it in env or .env.")
            /\ pc' = "except"
            /\ gen' = gen
       ELSE /\ gen' = NewGen(pdf_text.v, ContextChars)
            /\ pc' = "ask_loop"
            /\ exc' = exc
    /\ UNCHANGED <<environ, doc, save_answer, idx, all_text, pdf_text, chunks,
                   responses, calls, results, answer, stdout, stderr,
                   traceback, status, file>>

\* ask_gemini up to the loop: the credential check, genai.configure, the
\* model object, responses = [] and the call of chunk_text
AskCredential ==
    /\ pc = "ask"
    /\ IF NoKey(environ)
       THEN /\ exc' = Exception("EnvironmentError", "GEMINI_API_KEY is not set. Configure it in env or .env.")
            /\ pc' = "except"
            /\ gen' = gen
       ELSE /\ gen' = NewGen(pdf_text.v, ContextChars)
            /\ pc' = "ask_loop"
            /\ exc' = exc
    /\ UNCHANGED <<environ, doc, save_answer, idx, all_text, pdf_text, chunks,
                   responses, calls, results, answer, stdout, stderr,
                   traceback, status, file>>

\* the for loop takes the next chunk, builds its prompt and calls
\* model.generate_content, which blocks
AskChunk ==
    /\ pc = "ask_loop"
    /\ GenHasNext(gen)
    /\ chunks' = Append(chunks, GenYield(gen))
    /\ gen' = GenAdvance(gen)
    /\ calls' = Append(calls, build_prompt(GenYield(gen), Question))
    /\ pc' = "chunk_call"
    /\ UNCHANGED <<environ, doc, save_answer, idx, all_text, pdf_text,
                   responses, results, answer, exc, stdout, stderr, traceback,
                   status, file>>

\* a return that leaves the loop on an empty response
ChunkReturnBreakOnEmpty ==
    /\ pc = "chunk_call"
    /\ \E r \in ResultTexts :
          /\ results' = Append(results, Returned(r))
          /\ LET text == Strip(OrEmpty(r))
             IN  /\ responses' = IF text # <<>> THEN Append(responses, text)
                                 ELSE responses
                 /\ gen' = IF text # <<>> THEN gen
                           ELSE [gen EXCEPT !.i = Len(gen.text)]
    /\ pc' = "ask_loop"
    /\ UNCHANGED <<environ, doc, save_answer, idx, all_text, pdf_text,
                   chunks, calls, answer, exc, stdout, stderr, traceback,
                   status, file>>

\* the per-chunk call returns: trim result.text, keep it if non-empty
ChunkReturn ==
    /\ pc = "chunk_call"
    /\ \E r \in ResultTexts :
          /\ results' = Append(results, Returned(r))
          /\ LET text == Strip(OrEmpty(r))
             IN  responses' = IF text # <<>> THEN Append(responses, text)
                              ELSE responses
    /\ pc' = "ask_loop"
    /\ UNCHANGED <<environ, doc, save_answer, idx, all_text, pdf_text, gen,
                   chunks, calls, answer, exc, stdout, stderr, traceback,
                   status, file>>

\* a per-chunk call whose failure is swallowed: the loop goes on
ChunkFailSkipped ==
    /\ pc = "chunk_call"
    /\ results' = Append(results, Raised)
    /\ pc' = "ask_loop"
    /\ UNCHANGED <<environ, doc, save_answer, idx, all_text, pdf_text, gen,
                   chunks, responses, calls, answer, exc, stdout, stderr,
                   traceback, status, file>>

\* the per-chunk call raises: nothing in ask_gemini catches it
ChunkFail ==
    /\ pc = "chunk_call"
    /\ results' = Append(results, Raised)
    /\ exc' = Exception("TransportFailure", "remote call failed")
    /\ pc' = "except"
    /\ UNCHANGED <<environ, doc, save_answer, idx, all_text, pdf_text, gen,
                   chunks, responses, calls, answer, stdout, stderr,
                   traceback, status, file>>

\* an end of loop that always issues the merge call when there is a response
AskLoopEndAlwaysMerge ==
    /\ pc = "ask_loop"
    /\ ~GenHasNext(gen)
    /\ IF responses = <<>>
       THEN /\ exc' = Exception("RuntimeError", "Gemini returned an empty response.")
            /\ pc' = "except"
            /\ UNCHANGED <<answer, calls>>
       ELSE /\ calls' = Append(calls, summary_prompt(responses))
            /\ pc' = "merge_call"
            /\ UNCHANGED <<answer, exc>>
    /\ UNCHANGED <<environ, doc, save_answer, idx, all_text, pdf_text, gen,
                   chunks, responses, results, stdout, stderr, traceback,
                   status, file>>

\* the loop is over: no response raises, one response is returned, several
\* are put into the merge prompt and model.generate_content is called again
AskLoopEnd ==
    /\ pc = "ask_loop"
    /\ ~GenHasNext(gen)
    /\ IF responses = <<>>
       THEN /\ exc' = Exception("RuntimeError", "Gemini returned an empty response.")
            /\ pc' = "except"
            /\ UNCHANGED <<answer, calls>>
       ELSE IF Len(responses) = 1
       THEN /\ answer' = Some(responses[1])
            /\ pc' = "print"
            /\ UNCHANGED <<exc, calls>>
       ELSE /\ calls' = Append(calls, summary_prompt(responses))
            /\ pc' = "merge_call"
            /\ UNCHANGED <<answer, exc>>
    /\ UNCHANGED <<environ, doc, save_answer, idx, all_text, pdf_text, gen,
                   chunks, responses, results, stdout, stderr, traceback,
                   status, file>>

\* a merge return with no fallback: the trimmed result is returned as it is
MergeReturnNoFallback ==
    /\ pc = "merge_call"
    /\ \E r \in ResultTexts :
          /\ results' = Append(results, Returned(r))
          /\ answer' = Some(Strip(OrEmpty(r)))
    /\ pc' = "print"
    /\ UNCHANGED <<environ, doc, save_answer, idx, all_text, pdf_text, gen,
                   chunks, responses, calls, exc, stdout, stderr, traceback,
                   status, file>>

\* the merge call returns: (final.text or "").strip() or "\n\n".join(responses)
MergeReturn ==
    /\ pc = "merge_call"
    /\ \E r \in ResultTexts :
          /\ results' = Append(results, Returned(r))
          /\ LET final == Strip(OrEmpty(r))
             IN  answer' = Some(IF final # <<>> THEN final
                                ELSE Join(BlankLine, responses))
    /\ pc' = "print"
    /\ UNCHANGED <<environ, doc, save_answer, idx, all_text, pdf_text, gen,
                   chunks, responses, calls, exc, stdout, stderr, traceback,
                   status, file>>

\* the merge call raises: nothing in ask_gemini catches it
MergeFail ==
    /\ pc = "merge_call"
    /\ results' = Append(results, Raised)
    /\ exc' = Exception("TransportFailure", "remote call failed")
    /\ pc' = "except"
    /\ UNCHANGED <<environ, doc, save_answer, idx, all_text, pdf_text, gen,
                   chunks, responses, calls, answer, stdout, stderr,
                   traceback, status, file>>

\* one printed line: a fixed label followed by a text
Line(label, text) == [label |-> label, text |-> text]

\* except Exception as exc: print the error line, return 1
MainExcept ==
    /\ pc = "except"
    /\ stderr' = Append(stderr, [label |-> "Error: ", msg |-> exc.v.msg])
    /\ status' = Some(1)
    /\ pc' = "exited"
    /\ UNCHANGED <<environ, doc, save_answer, idx, all_text, pdf_text, gen,
                   chunks, responses, calls, results, answer, exc, stdout,
                   traceback, file>>

\* the four prints of main, then return 0 unless args.save_answer is truthy
MainPrint ==
    /\ pc = "print"
    /\ stdout' = stdout \o <<Line("\n=== Question ===", <<>>),
                             Line("", Question),
                             Line("\n=== Answer ===", <<>>),
                             Line("", answer.v)>>
    /\ IF save_answer.some /\ save_answer.v # ""
       THEN pc' = "write" /\ status' = status
       ELSE pc' = "exited" /\ status' = Some(0)
    /\ UNCHANGED <<environ, doc, save_answer, idx, all_text, pdf_text, gen,
                   chunks, responses, calls, results, answer, exc, stderr,
                   traceback, file>>

\* out.write_text(answer + "\n") succeeds: report the path, return 0
MainWrite ==
    /\ pc = "write"
    /\ file' = Some(answer.v \o <<"\n">>)
    /\ stdout' = Append(stdout, [label |-> "\nSaved answer to: ",
                                 path |-> save_answer.v])
    /\ status' = Some(0)
    /\ pc' = "exited"
    /\ UNCHANGED <<environ, doc, save_answer, idx, all_text, pdf_text, gen,
                   chunks, responses, calls, results, answer, exc, stderr,
                   traceback>>

\* out.write_text raises (a missing directory, no permission): the call is
\* outside the try block of main, so the exception leaves main
MainWriteFail ==
    /\ pc = "write"
    /\ exc' = Exception("OSError", "cannot write the answer file")
    /\ pc' = "uncaught"
    /\ UNCHANGED <<environ, doc, save_answer, idx, all_text, pdf_text, gen,
                   chunks, responses, calls, results, answer, stdout, stderr,
                   traceback, status, file>>

\* raise SystemExit(main()) with an exception leaving main: the interpreter
\* prints the stack trace and exits with status 1
Uncaught ==
    /\ pc = "uncaught"
    /\ traceback' = TRUE
    /\ status' = Some(1)
    /\ pc' = "exited"
    /\ UNCHANGED <<environ, doc, save_answer, idx, all_text, pdf_text, gen,
                   chunks, responses, calls, results, answer, exc, stdout,
                   stderr, file>>

Next ==
    \/ LoadEnv
    \/ ExtractOpen
    \/ ExtractPage
    \/ ExtractJoin
    \/ AskCredential
    \/ AskChunk
    \/ ChunkReturn
    \/ ChunkFail
    \/ AskLoopEnd
    \/ MergeReturn
    \/ MergeFail
    \/ MainExcept
    \/ MainPrint
    \/ MainWrite
    \/ MainWriteFail
    \/ Uncaught

Spec == Init /\ [][Next]_vars

\* ------------------------------------------- what the claims are stated with

\* the text of an optional text, None read as empty
TextOf(x) == IF x.some THEN x.v ELSE <<>>

\* positions of the characters of t that are not whitespace
Solid(t) == {i \in 1..Len(t) : t[i] \notin Whitespace}

SetMin(S) == CHOOSE m \in S : \A n \in S : m <= n

SetMax(S) == CHOOSE m \in S : \A n \in S : m >= n

\* t without its leading and trailing whitespace, stated by positions
Trimmed(t) ==
    IF Solid(t) = {} THEN <<>> ELSE SubSeq(t, SetMin(Solid(t)), SetMax(Solid(t)))

\* the elements of seq that are not the empty text, in order
NonEmpty(seq) == SelectSeq(seq, LAMBDA t : t # <<>>)

\* number of chunks of a text of length n cut by size
NChunks(n, size) == (n + size - 1) \div size

\* the k-th chunk (from 1) of text cut by size
ChunkAt(text, size, k) ==
    SubSeq(text, (k - 1) * size + 1, Min(k * size, Len(text)))

\* number of chunks of the text ask_gemini was given
N == NChunks(Len(TextOf(pdf_text)), ContextChars)

\* every per-chunk call has returned, none has raised
AllChunkCallsReturned ==
    /\ pdf_text.some
    /\ Len(results) >= N
    /\ \A k \in 1..N : ~results[k].raised

\* the PartialAnswers: the trimmed non-empty results of the per-chunk calls
\* that have returned, in chunk order
Partials ==
    NonEmpty([k \in 1..Min(N, Len(results)) |->
                IF results[k].raised THEN <<>>
                ELSE Trimmed(TextOf(results[k].text))])

\* the loop of ask_gemini is over and the statement after it has run
AfterLoop == AllChunkCallsReturned /\ pc # "ask_loop"

\* C4: when every per-chunk call has returned and exactly one of them gave
\* a non-empty trimmed response, ask_gemini returns that response verbatim,
\* and the only calls issued are the per-chunk calls (no merge call).
C4_SinglePartialIsFinal ==
    (AfterLoop /\ Len(Partials) = 1) =>
        /\ answer = Some(Partials[1])
        /\ Len(calls) = N
        /\ Len(results) = N

\* C4 witness: three chunks, only the second gave a non-empty response
C4_Witness ==
    /\ AfterLoop
    /\ N = 3
    /\ Trimmed(TextOf(results[1].text)) = <<>>
    /\ Trimmed(TextOf(results[2].text)) # <<>>
    /\ Trimmed(TextOf(results[3].text)) = <<>>
    /\ answer.some

\* C5: when more than one PartialAnswer was collected, exactly one merge
\* call is issued, after all per-chunk calls, with the merge prompt over the
\* PartialAnswers; when it returns, the FinalAnswer is its trimmed result if
\* that is non-empty, and otherwise the PartialAnswers joined by a blank
\* line in chunk order.
C5_MergeOrConcatenate ==
    (AfterLoop /\ Len(Partials) > 1) =>
        /\ Len(calls) = N + 1
        /\ calls[N + 1] = summary_prompt(Partials)
        /\ \A k \in 1..N : calls[k] # summary_prompt(Partials)
        /\ Len(results) = N => (pc = "merge_call" /\ answer = None)
        /\ (Len(results) = N + 1 /\ ~results[N + 1].raised) =>
              LET final == Trimmed(TextOf(results[N + 1].text))
              IN  answer = Some(IF final # <<>> THEN final
                                ELSE Join(BlankLine, Partials))

\* C5 witness: three chunks, three PartialAnswers not all alike, a merge
\* call that returned whitespace only, the run over
C5_Witness ==
    /\ AfterLoop
    /\ N = 3
    /\ Len(Partials) = 3
    /\ Partials[1] # Partials[2]
    /\ Len(results) = 4
    /\ results[4] = Returned(Some(<<" ">>))
    /\ pc = "exited"

\* C6: with GEMINI_API_KEY unset or empty no remote call is ever issued, and
\* once ask_gemini has been entered it has failed with the missing
\* credential error and returned no answer.
C6_NoKeyNoCall ==
    NoKey(environ) =>
        /\ calls = <<>>
        /\ results = <<>>
        /\ (pdf_text.some /\ pc # "ask") =>
              /\ exc = Exception("EnvironmentError", "GEMINI_API_KEY is not set. Configure it in env or .env.")
              /\ answer = None

\* C6 witness: an empty (but set) key, a text of several chunks, the run over
C6_Witness ==
    /\ environ = Some("")
    /\ pdf_text.some
    /\ N = 3
    /\ pc = "exited"
    /\ status = Some(1)

\* C7 as stated: every run ends with status 0 on success and 1 on a failure;
\* on a failure exactly one "Error: <message>" line is on the error stream,
\* no stack trace is printed and the answer is not printed; on success the
\* answer file, when requested, holds the answer and one trailing newline.
C7_Original ==
    pc = "exited" =>
        IF exc.some
        THEN /\ status = Some(1)
             /\ stderr = <<[label |-> "Error: ", msg |-> exc.v.msg]>>
             /\ ~traceback
             /\ stdout = <<>>
        ELSE /\ status = Some(0)
             /\ stderr = <<>>
             /\ (save_answer.some /\ save_answer.v # "") =>
                    file = Some(answer.v \o <<"\n">>)

\* the pages whose text has a character that is not whitespace
RECURSIVE Sections(_, _)
Sections(pages, i) ==
    IF i > Len(pages) THEN <<>>
    ELSE IF Solid(TextOf(pages[i])) = {} THEN Sections(pages, i + 1)
    ELSE <<PageMarker(i) \o Trimmed(TextOf(pages[i]))>> \o Sections(pages, i + 1)

\* extract_pdf_text has ended on a file that exists and is a PDF
ExtractionOver ==
    doc.exists /\ doc.valid /\ pc \notin {"load_env", "extract", "extract_loop"}

\* C8: on a readable document extract_pdf_text returns the sections of
\* exactly the pages with non-blank text, in page order, each headed by the
\* marker of the page's own 1-based index and joined by blank lines (one
\* section per page when no page is blank); the result is never empty; when
\* every page is blank it fails with the empty-content error.
C8_ExtractSections ==
    ExtractionOver =>
        IF Sections(doc.pages, 1) = <<>>
        THEN /\ pdf_text = None
             /\ exc = Exception("ValueError", "Could not extract any text from the PDF.")
        ELSE /\ pdf_text = Some(Join(BlankLine, Sections(doc.pages, 1)))
             /\ pdf_text.v # <<>>
             /\ (\A i \in 1..Len(doc.pages) : Solid(TextOf(doc.pages[i])) # {})
                    => Len(all_text) = Len(doc.pages)

\* C8 witness: a first page that is blank and a second that is not
C8_Witness ==
    /\ ExtractionOver
    /\ Len(doc.pages) = 2
    /\ Solid(TextOf(doc.pages[1])) = {}
    /\ Solid(TextOf(doc.pages[2])) # {}
    /\ pdf_text.some

\* C9: a remote call that raises is the last call of the run: no later
\* call (no next chunk, no merge, no retry) is issued, ask_gemini returns no
\* answer (none built from the responses collected so far, none by the
\* concatenation fallback), nothing is printed to the output stream or
\* written, and the run ends with the error line and status 1.
C9_FailurePropagates ==
    \A k \in 1..Len(results) :
        results[k].raised =>
            /\ k = Len(results)
            /\ Len(calls) = k
            /\ answer = None
            /\ stdout = <<>>
            /\ file = None
            /\ exc = Exception("TransportFailure", "remote call failed")
            /\ pc \in {"except", "exited"}
            /\ pc = "exited" =>
                  /\ status = Some(1)
                  /\ stderr = <<[label |-> "Error: ", msg |-> exc.v.msg]>>

\* C9 witness: the call for the second of three chunks raised after the
\* first had given a response, and the run is over
C9_Witness ==
    /\ N = 3
    /\ Len(results) = 2
    /\ results[2].raised
    /\ responses # <<>>
    /\ pc = "exited"

NoCallRaised == \A k \in 1..Len(results) : ~results[k].raised

\* ask_gemini has ended, after its credential check has passed
AskOver ==
    /\ pdf_text.some
    /\ ~NoKey(environ)
    /\ pc \in {"except", "print", "write", "uncaught", "exited"}

\* C10: while no remote call has raised, at most one call is in flight and
\* each call is issued after the one before it has returned; the k-th call
\* carries the prompt of the k-th chunk of the text; a further call is the
\* merge call and is issued only after all per-chunk calls have returned;
\* and when ask_gemini has ended the number of calls is the number of
\* chunks, plus one exactly when two or more PartialAnswers were collected.
C10_CallsInChunkOrder ==
    (pdf_text.some /\ NoCallRaised) =>
        /\ Len(calls) - Len(results) \in {0, 1}
        /\ Len(calls) <= N + 1
        /\ \A k \in 1..Min(N, Len(calls)) :
              calls[k] = build_prompt(ChunkAt(pdf_text.v, ContextChars, k),
                                      Question)
        /\ Len(calls) = N + 1 =>
              /\ Len(results) >= N
              /\ calls[N + 1] = summary_prompt(Partials)
        /\ AskOver =>
              Len(calls) = N + (IF Len(Partials) >= 2 THEN 1 ELSE 0)

\* C10 witness: three chunks, the first response empty, the other two not,
\* the merge call returned and the run is over
C10_Witness ==
    /\ NoCallRaised
    /\ AskOver
    /\ N = 3
    /\ Len(results) = 4
    /\ Trimmed(TextOf(results[1].text)) = <<>>
    /\ Len(Partials) = 2
    /\ pc = "exited"

====
